---- MODULE Spec2Model ----
(***************************************************************************)
(* Battery cell simulator (battery_streamlit_app.py): the session state,   *)
(* the cell registry with its telemetry simulation, the history, and the   *)
(* task ledger with its progress loop.                                     *)
(*                                                                         *)
(* Numbers are fixed point, in thousandths: 3.2 V is 3200, 0.1 A is 100,   *)
(* 25.0 degrees is 25000, a capacity of 0.32 is 320.  A stored voltage,    *)
(* current or capacity (2 decimals) is a multiple of 10, a stored          *)
(* temperature (1 decimal) a multiple of 100; the random draws and the     *)
(* values between clamping and rounding are finer than that.               *)
(*                                                                         *)
(* One script run of the Streamlit page that handles one widget event is   *)
(* one action.  A Python dict is a sequence of [key, value] entries in     *)
(* insertion order.                                                        *)
(***************************************************************************)
EXTENDS Integers, Sequences, FiniteSets, TLC

VARIABLES
    cells_data,          \* st.session_state.cells_data
    tasks_data,          \* st.session_state.tasks_data
    simulation_running,  \* st.session_state.simulation_running
    historical_data,     \* st.session_state.historical_data
    current_time,        \* st.session_state.current_time (the tick counter)
    now,                 \* the wall clock read by datetime.now(), in seconds
    session_start,       \* history variable: the wall clock at session start
    op,                  \* history variable: the operation that ran last
    advances             \* history variable: consecutive runs of the progress
                         \* loop since a Pending task was started, -1 if none

vars == <<cells_data, tasks_data, simulation_running, historical_data,
          current_time, now, session_start, op, advances>>

-----------------------------------------------------------------------------
(* Bounds of the model *)

MaxCells == 2

MaxCount == 2

MaxHist == 3

MaxTime == 3

MaxClock == 1

MaxTasks == 3

AdvCap == 100

-----------------------------------------------------------------------------
(* Arithmetic *)

Min(a, b) == IF a <= b THEN a ELSE b

Max(a, b) == IF a >= b THEN a ELSE b

\* round(x, n): the nearest multiple of unit, an exact tie going to the even
\* multiple (Python 3 rounds half to even).
RoundTo(x, unit) ==
    LET q == x \div unit
        r == x % unit
    IN  IF 2 * r < unit THEN q * unit
        ELSE IF 2 * r > unit THEN (q + 1) * unit
        ELSE IF q % 2 = 0 THEN q * unit
        ELSE (q + 1) * unit

Round2(x) == RoundTo(x, 10)

Round1(x) == RoundTo(x, 100)

\* round(voltage * current, 2): the product of two values in thousandths is
\* in millionths; the result is again in thousandths.
RoundProduct2(v, c) == RoundTo(v * c, 10000) \div 1000

-----------------------------------------------------------------------------
(* Python dict, insertion ordered *)

DictKeys(d) == {d[i].key : i \in DOMAIN d}

\* d[k] = v : replaces the value in place when the key exists, appends otherwise
DictSet(d, k, v) ==
    IF k \in DictKeys(d)
    THEN [i \in DOMAIN d |-> IF d[i].key = k THEN [key |-> k, value |-> v] ELSE d[i]]
    ELSE Append(d, [key |-> k, value |-> v])

\* del d[k]
DictDel(d, k) == SelectSeq(d, LAMBDA e : e.key # k)

-----------------------------------------------------------------------------
(* Cell registry *)

CellTypes == {"lfp", "nmc"}

NominalVoltage(cell_type) == IF cell_type = "lfp" THEN 3200 ELSE 3600

MinVoltage(cell_type) == IF cell_type = "lfp" THEN 2800 ELSE 3200

MaxVoltage(cell_type) == IF cell_type = "lfp" THEN 3600 ELSE 4000

\* f"cell_{n}_{cell_type}"
CellKey(n, cell_type) == <<"cell", n, cell_type>>

\* u_current and u_temp are the draws random.uniform(0.1, 2.0) and
\* random.uniform(25, 40)
generate_cell_data(cell_type, cell_id, u_current, u_temp) ==
    LET voltage == NominalVoltage(cell_type)
        current == Round2(u_current)
        temp    == Round1(u_temp)
    IN  [cell_id     |-> CellKey(cell_id, cell_type),
         type        |-> cell_type,
         voltage     |-> voltage,
         current     |-> current,
         temp        |-> temp,
         capacity    |-> RoundProduct2(voltage, current),
         min_voltage |-> MinVoltage(cell_type),
         max_voltage |-> MaxVoltage(cell_type),
         status      |-> "Active"]

StartIdFromLen(d) == Len(d)

StartId(d) == Len(d) + 1

\* for i in range(cell_count): cells_data[cell_id] = generate_cell_data(...)
RECURSIVE AddCells(_, _, _, _, _, _, _)
AddCells(d, cell_type, start_id, i, cell_count, u_current, u_temp) ==
    IF i >= cell_count THEN d
    ELSE AddCells(DictSet(d, CellKey(start_id + i, cell_type),
                          generate_cell_data(cell_type, start_id + i,
                                             u_current[i + 1], u_temp[i + 1])),
                  cell_type, start_id, i + 1, cell_count, u_current, u_temp)

NoClampVoltage(cell, v) == v

ClampVoltage(cell, v) == Max(cell.min_voltage, Min(cell.max_voltage, v))

ClampTemp(t) == Max(20000, Min(50000, t))

ClampCurrent(c) == Max(0, c)

\* the body of the first loop of simulate_real_time_data for one cell
UpdateCell(cell, voltage_change, temp_change, current_change) ==
    LET new_voltage == ClampVoltage(cell, cell.voltage + voltage_change)
        new_temp    == ClampTemp(cell.temp + temp_change)
        new_current == ClampCurrent(cell.current + current_change)
    IN  [cell EXCEPT !.voltage  = Round2(new_voltage),
                     !.temp     = Round1(new_temp),
                     !.current  = Round2(new_current),
                     !.capacity = RoundProduct2(new_voltage, new_current)]

\* one history entry of the second loop
Sample(timestamp, entry) ==
    [timestamp |-> timestamp,
     cell_id   |-> entry.key,
     voltage   |-> entry.value.voltage,
     current   |-> entry.value.current,
     temp      |-> entry.value.temp,
     capacity  |-> entry.value.capacity]

UpdateAll(cells, dV, dT, dC) ==
    [i \in DOMAIN cells |->
        [key |-> cells[i].key,
         value |-> UpdateCell(cells[i].value, dV[i], dT[i], dC[i])]]

simulate_stale_history(cells, hist, ct, clock, dV, dT, dC) ==
    IF cells # <<>>
    THEN [cells |-> UpdateAll(cells, dV, dT, dC),
          hist  |-> hist \o [i \in DOMAIN cells |-> Sample(clock + ct, cells[i])],
          ct    |-> ct + 1]
    ELSE [cells |-> cells, hist |-> hist, ct |-> ct]

\* simulate_real_time_data on the state (cells, hist, ct) with the wall clock
\* at clock; dV, dT, dC give each cell's three random.uniform draws
simulate_real_time_data(cells, hist, ct, clock, dV, dT, dC) ==
    IF cells # <<>>
    THEN LET updated   == UpdateAll(cells, dV, dT, dC)
             timestamp == clock + ct
         IN  [cells |-> updated,
              hist  |-> hist \o [i \in DOMAIN updated |-> Sample(timestamp, updated[i])],
              ct    |-> ct + 1]
    ELSE [cells |-> cells, hist |-> hist, ct |-> ct]

\* the model's cap on the history length and on the tick counter
TickFits(cells, hist, ct) ==
    cells # <<>> => (Len(hist) + Len(cells) <= MaxHist /\ ct < MaxTime)

\* the value of op: the operation's name, the widget event of a render (the
\* cell count of a create_cells), and whether simulate_real_time_data was called
Op(name, event, ticked) == [name |-> name, event |-> event, ticked |-> ticked]

-----------------------------------------------------------------------------
(* Initial state: initialize_session_state *)

Init ==
    /\ cells_data = <<>>
    /\ tasks_data = <<>>
    /\ simulation_running = FALSE
    /\ historical_data = <<>>
    /\ current_time = 0
    /\ now = 0
    /\ session_start = 0
    /\ op = Op("init", "-", FALSE)
    /\ advances = -1

-----------------------------------------------------------------------------
(* Setup Cells page *)

\* form submit "Add Cells"
CreateCells(Types, Counts, Currents, Temps) ==
    \E cell_type \in Types, cell_count \in Counts :
        /\ Len(cells_data) + cell_count <= MaxCells
        /\ \E u_current \in [1..cell_count -> Currents],
              u_temp \in [1..cell_count -> Temps] :
              cells_data' = AddCells(cells_data, cell_type, StartId(cells_data),
                                     0, cell_count, u_current, u_temp)
        /\ op' = Op("create_cells", ToString(cell_count), FALSE)
        /\ UNCHANGED <<tasks_data, simulation_running, historical_data,
                       current_time, now, session_start>>

\* simulate_real_time_data, as called by "Refresh Cell Data" and "Update Data"
Tick(VoltageChanges, TempChanges, CurrentChanges) ==
    /\ TickFits(cells_data, historical_data, current_time)
    /\ \E dV \in [DOMAIN cells_data -> VoltageChanges],
          dT \in [DOMAIN cells_data -> TempChanges],
          dC \in [DOMAIN cells_data -> CurrentChanges] :
          LET r == simulate_real_time_data(cells_data, historical_data,
                                           current_time, now, dV, dT, dC)
          IN  /\ cells_data' = r.cells
              /\ historical_data' = r.hist
              /\ current_time' = r.ct
    /\ op' = Op("tick", "-", TRUE)
    /\ UNCHANGED <<tasks_data, simulation_running, now, session_start>>

ClearCellsOnly ==
    /\ cells_data # <<>>
    /\ cells_data' = <<>>
    /\ op' = Op("clear", "-", FALSE)
    /\ UNCHANGED <<tasks_data, simulation_running, historical_data,
                   current_time, now, session_start>>

\* button "Clear All Cells", shown while the registry is not empty
ClearAllCells ==
    /\ cells_data # <<>>
    /\ cells_data' = <<>>
    /\ historical_data' = <<>>
    /\ op' = Op("clear", "-", FALSE)
    /\ UNCHANGED <<tasks_data, simulation_running, current_time, now,
                   session_start>>

\* the wall clock advances between script runs
TimePasses ==
    /\ now < MaxClock
    /\ now' = now + 1
    /\ op' = Op("time", "-", FALSE)
    /\ UNCHANGED <<cells_data, tasks_data, simulation_running, historical_data,
                   current_time, session_start>>

-----------------------------------------------------------------------------
(* Add Tasks page *)

\* the form's task_data for each task type, with the form's default values
TaskInputs ==
    {[task_type |-> "CC_CV", cc_cp |-> "", cv_voltage |-> 3600, current |-> 1000,
      capacity |-> 10000, time_seconds |-> 3600],
     [task_type |-> "IDLE", time_seconds |-> 1800],
     [task_type |-> "CC_CD", cc_cp |-> "", voltage |-> 3200, capacity |-> 10000,
      time_seconds |-> 3600]}

\* f"task_{n}"
TaskKey(n) == <<"task", n>>

\* form submit "Add Task"
AddTask(Inputs) ==
    \E task_data \in Inputs :
        /\ Len(tasks_data) < MaxTasks
        /\ LET task_id == TaskKey(Len(tasks_data) + 1)
           IN  tasks_data' = DictSet(tasks_data, task_id,
                                     [status |-> "Pending", progress |-> 0] @@ task_data)
        /\ op' = Op("add_task", "-", FALSE)
        /\ UNCHANGED <<cells_data, simulation_running, historical_data,
                       current_time, now, session_start>>

\* button "Start" of task i
StartTask(i) ==
    /\ i \in DOMAIN tasks_data
    /\ tasks_data' = [tasks_data EXCEPT ![i].value.status = "Running"]
    /\ op' = Op("start_task", "-", FALSE)
    /\ UNCHANGED <<cells_data, simulation_running, historical_data,
                   current_time, now, session_start>>

\* button "Delete" of task i
DeleteTask(i) ==
    /\ i \in DOMAIN tasks_data
    /\ tasks_data' = DictDel(tasks_data, tasks_data[i].key)
    /\ op' = Op("delete_task", "-", FALSE)
    /\ UNCHANGED <<cells_data, simulation_running, historical_data,
                   current_time, now, session_start>>

-----------------------------------------------------------------------------
(* Real-time Analysis page *)

ProgressIncrementsFromZero == 0..5

\* random.randint(1, 5)
ProgressIncrements == 1..5

\* the body of the task progress loop for one task; k is its random.randint draw
AdvanceTask(task, k) ==
    IF task.status = "Running"
    THEN LET progress == Min(100, task.progress + k)
         IN  [task EXCEPT !.progress = progress,
                          !.status = IF progress >= 100 THEN "Completed" ELSE @]
    ELSE task

advance_progress(tasks, K) ==
    [i \in DOMAIN tasks |->
        [key |-> tasks[i].key, value |-> AdvanceTask(tasks[i].value, K[i])]]

AnalysisEvents == {"none", "start", "pause", "update", "clear_history"}

\* TRUE when this run of the page reaches the task progress loop
ReachesProgressLoop(event) ==
    /\ cells_data # <<>>
    /\ event # "update"
    /\ IF event = "start" THEN FALSE
       ELSE IF event = "pause" THEN TRUE
       ELSE ~simulation_running

\* one script run of the Real-time Analysis page handling one widget event
RenderAnalysis(Events, VoltageChanges, TempChanges, CurrentChanges, Increments) ==
    \E event \in Events :
        IF cells_data = <<>>
        THEN \* only the warning is shown: no buttons, no simulation, no task loop
             /\ event = "none"
             /\ op' = Op("render", event, FALSE)
             /\ UNCHANGED <<cells_data, tasks_data, simulation_running,
                            historical_data, current_time, now, session_start>>
        ELSE
          LET running == IF event = "start" THEN TRUE
                         ELSE IF event = "pause" THEN FALSE
                         ELSE simulation_running
              hist    == IF event = "clear_history" THEN <<>> ELSE historical_data
              ct      == IF event = "clear_history" THEN 0 ELSE current_time
          IN
          IF event = "update"
          THEN \* simulate_real_time_data(); st.rerun()
               /\ TickFits(cells_data, historical_data, current_time)
               /\ \E dV \in [DOMAIN cells_data -> VoltageChanges],
                     dT \in [DOMAIN cells_data -> TempChanges],
                     dC \in [DOMAIN cells_data -> CurrentChanges] :
                     LET r == simulate_real_time_data(cells_data, historical_data,
                                                      current_time, now, dV, dT, dC)
                     IN  /\ cells_data' = r.cells
                         /\ historical_data' = r.hist
                         /\ current_time' = r.ct
               /\ op' = Op("render", event, TRUE)
               /\ UNCHANGED <<tasks_data, simulation_running, now, session_start>>
          ELSE IF running
          THEN \* auto-refresh: simulate_real_time_data(); time.sleep(1); st.rerun()
               /\ TickFits(cells_data, hist, ct)
               /\ now < MaxClock
               /\ \E dV \in [DOMAIN cells_data -> VoltageChanges],
                     dT \in [DOMAIN cells_data -> TempChanges],
                     dC \in [DOMAIN cells_data -> CurrentChanges] :
                     LET r == simulate_real_time_data(cells_data, hist, ct, now,
                                                      dV, dT, dC)
                     IN  /\ cells_data' = r.cells
                         /\ historical_data' = r.hist
                         /\ current_time' = r.ct
               /\ simulation_running' = running
               /\ now' = now + 1
               /\ op' = Op("render", event, TRUE)
               /\ UNCHANGED <<tasks_data, session_start>>
          ELSE \* the metrics and charts are drawn, then the task progress loop runs
               /\ simulation_running' = running
               /\ historical_data' = hist
               /\ current_time' = ct
               /\ \E K \in [DOMAIN tasks_data -> Increments] :
                     tasks_data' = advance_progress(tasks_data, K)
               /\ op' = Op("render", event, FALSE)
               /\ UNCHANGED <<cells_data, now, session_start>>

-----------------------------------------------------------------------------
(* Spec: the cell registry, the history and the clock; the ledger stays     *)
(* empty.  Draws are few so that several cells fit.                         *)

RegCurrents == {104}

RegTemps == {25040}

RegVoltageChanges == {4}

RegTempChanges == {-40}

RegCurrentChanges == {-100, 4}

Next ==
    \/ CreateCells(CellTypes, 1..MaxCount, RegCurrents, RegTemps)
         /\ UNCHANGED advances
    \/ Tick(RegVoltageChanges, RegTempChanges, RegCurrentChanges)
         /\ UNCHANGED advances
    \/ ClearAllCells /\ UNCHANGED advances
    \/ RenderAnalysis(AnalysisEvents, RegVoltageChanges, RegTempChanges,
                      RegCurrentChanges, ProgressIncrements)
         /\ UNCHANGED advances
    \/ TimePasses /\ UNCHANGED advances

Spec == Init /\ [][Next]_vars

-----------------------------------------------------------------------------
(* SpecTelemetry: one cell at a time, walked by the ticks to its clamps.    *)
(* The draws include the extremes of each range and values finer than the   *)
(* stored precision.                                                        *)

TelCurrents == {104}

TelTemps == {25040}

TelVoltageChanges == {-50, 4, 50}

TelTempChanges == {-1000}

TelCurrentChanges == {-100, 4}

NextTelemetry ==
    \/ /\ cells_data = <<>>
       /\ CreateCells(CellTypes, {1}, TelCurrents, TelTemps)
       /\ UNCHANGED advances
    \/ Tick(TelVoltageChanges, TelTempChanges, TelCurrentChanges)
         /\ UNCHANGED advances
    \/ ClearAllCells /\ UNCHANGED advances
    \/ RenderAnalysis({"none", "clear_history"}, TelVoltageChanges,
                      TelTempChanges, TelCurrentChanges, ProgressIncrements)
         /\ UNCHANGED advances

SpecTelemetry == Init /\ [][NextTelemetry]_vars

-----------------------------------------------------------------------------
(* SpecLedger: the Add Tasks page alone, up to MaxTasks tasks.              *)

NextLedger ==
    \/ AddTask(TaskInputs) /\ UNCHANGED advances
    \/ \E i \in 1..MaxTasks : StartTask(i) /\ UNCHANGED advances
    \/ \E i \in 1..MaxTasks : DeleteTask(i) /\ UNCHANGED advances

SpecLedger == Init /\ [][NextLedger]_vars

-----------------------------------------------------------------------------
(* SpecTasks: one task at a time, driven through its whole life by the      *)
(* renders of the analysis page, with the simulation started and paused.    *)

NextTasks ==
    \/ /\ cells_data = <<>>
       /\ CreateCells({"lfp"}, {1}, TelCurrents, TelTemps)
       /\ UNCHANGED advances
    \/ /\ tasks_data = <<>>
       /\ AddTask(TaskInputs)
       /\ UNCHANGED advances
    \/ StartTask(1) /\ UNCHANGED advances
    \/ DeleteTask(1) /\ UNCHANGED advances
    \/ RenderAnalysis({"none", "start", "pause"}, RegVoltageChanges,
                      RegTempChanges, {4}, ProgressIncrements)
         /\ UNCHANGED advances

SpecTasks == Init /\ [][NextTasks]_vars

-----------------------------------------------------------------------------
(* SpecProgress: one task is added, started and advanced; advances counts   *)
(* the consecutive runs of the progress loop since the start of a Pending   *)
(* task, up to AdvCap, and is -1 once another operation touched the task.   *)

CountedRender ==
    /\ RenderAnalysis({"none"}, RegVoltageChanges, RegTempChanges, {4},
                      ProgressIncrements)
    /\ advances' = IF advances >= 0 /\ ReachesProgressLoop("none")
                   THEN Min(advances + 1, AdvCap)
                   ELSE advances

NextProgress ==
    \/ /\ cells_data = <<>>
       /\ CreateCells({"lfp"}, {1}, TelCurrents, TelTemps)
       /\ UNCHANGED advances
    \/ /\ tasks_data = <<>>
       /\ AddTask(TaskInputs)
       /\ advances' = -1
    \/ /\ StartTask(1)
       /\ advances' = IF tasks_data[1].value.status = "Pending" THEN 0 ELSE -1
    \/ DeleteTask(1) /\ advances' = -1
    \/ CountedRender

SpecProgress == Init /\ [][NextProgress]_vars

-----------------------------------------------------------------------------
(* Claims about the cell telemetry, checked under SpecTelemetry *)

C5_CapacityIsStoredProduct ==
    op.ticked =>
        \A i \in DOMAIN cells_data :
            LET c == cells_data[i].value
            IN  c.capacity = RoundTo(c.voltage * c.current, 10000) \div 1000

-----------------------------------------------------------------------------
(* Claims about the registry and the history, checked under Spec *)

\* C6: Clear All Cells leaves the registry and the history both empty, in the
\* one step it takes.
C6_ClearEmptiesBoth ==
    op.name = "clear" => (cells_data = <<>> /\ historical_data = <<>>)

\* Clear All Cells has run after ticks had filled the history
C6_Witness ==
    /\ op.name = "clear"
    /\ current_time > 0
    /\ cells_data = <<>>

\* C7: create_cells(chemistry, count) on a registry of size s appends exactly
\* count cells numbered s+1..s+count, changes no existing cell, and every new
\* cell has the chemistry's nominal voltage and bounds and status Active.
C7_CreateAppends ==
    [][op'.name = "create_cells" =>
        LET s == Len(cells_data)
        IN  \E count \in 1..20, t \in {"lfp", "nmc"} :
              /\ op'.event = ToString(count)
              /\ Len(cells_data') = s + count
              /\ SubSeq(cells_data', 1, s) = cells_data
              /\ \A j \in 1..count :
                    LET e == cells_data'[s + j]
                    IN  /\ e.key = <<"cell", s + j, t>>
                        /\ e.value.cell_id = e.key
                        /\ e.value.type = t
                        /\ e.value.status = "Active"
                        /\ e.value.voltage = (IF t = "lfp" THEN 3200 ELSE 3600)
                        /\ e.value.min_voltage = (IF t = "lfp" THEN 2800 ELSE 3200)
                        /\ e.value.max_voltage = (IF t = "lfp" THEN 3600 ELSE 4000)
    ]_vars

\* a second create_cells has added a cell of the other chemistry
C7_Witness ==
    /\ op.name = "create_cells"
    /\ Len(cells_data) >= 2
    /\ cells_data[1].value.type # cells_data[Len(cells_data)].value.type

\* C9: a tick on c >= 1 cells appends c samples to the history, one per cell
\* in registry order with the cell's values after the update, keeps the
\* earlier samples and adds 1 to the tick counter; a tick on an empty registry
\* changes nothing.  In a run that handles Clear History before it ticks, the
\* tick acts on the emptied history and the counter 0.
C9_TickAppends ==
    [][op'.ticked =>
        IF cells_data = <<>>
        THEN UNCHANGED <<cells_data, historical_data, current_time>>
        ELSE LET cleared == op'.event = "clear_history"
                 before  == IF cleared THEN <<>> ELSE historical_data
                 counter == IF cleared THEN 0 ELSE current_time
                 c == Len(cells_data)
                 h == Len(before)
             IN  /\ Len(cells_data') = c
                 /\ Len(historical_data') = h + c
                 /\ SubSeq(historical_data', 1, h) = before
                 /\ \A j \in 1..c :
                       LET smp == historical_data'[h + j]
                           e   == cells_data'[j]
                       IN  /\ smp.cell_id = e.key
                           /\ smp.voltage = e.value.voltage
                           /\ smp.current = e.value.current
                           /\ smp.temp = e.value.temp
                           /\ smp.capacity = e.value.capacity
                 /\ current_time' = counter + 1
    ]_vars

\* a tick on two cells has appended to a history that held samples already
C9_Witness ==
    /\ op.ticked
    /\ Len(cells_data) >= 2
    /\ Len(historical_data) > Len(cells_data)

\* C10: every sample a tick appends has the timestamp session start + k
\* seconds, k being the tick counter when the tick runs.
C10_TimestampFromSessionStart ==
    [][(op'.ticked /\ cells_data # <<>>) =>
        \A j \in 1..Len(cells_data) :
            historical_data'[Len(historical_data') - Len(cells_data) + j].timestamp
                = session_start + (current_time' - 1)
    ]_vars

\* C11: in every reachable state every sample of the history has a cell_id
\* that is a key of the cell registry; so the history is empty whenever the
\* registry is.
C11_HistoryCellsRegistered ==
    /\ \A j \in DOMAIN historical_data :
          historical_data[j].cell_id \in DictKeys(cells_data)
    /\ cells_data = <<>> => historical_data = <<>>

\* cells were added to a registry whose earlier cells have samples in the history
C11_Witness ==
    /\ op.name = "create_cells"
    /\ historical_data # <<>>
    /\ Len(cells_data) >= 2

-----------------------------------------------------------------------------
(* Claims about the task ledger *)

\* C2 (SpecTasks): a Running task's progress never decreases over a render,
\* and a task whose progress is 100 is Completed and is still Completed after
\* every step that keeps it.
C2_MonotoneThenCompleted ==
    [][\A i \in DOMAIN tasks_data, j \in DOMAIN tasks_data' :
          tasks_data[i].key = tasks_data'[j].key =>
              LET t == tasks_data[i].value
                  u == tasks_data'[j].value
              IN  /\ (t.status = "Running" /\ op'.name = "render")
                        => u.progress >= t.progress
                  /\ t.progress = 100
                        => (t.status = "Completed" /\ u.status = "Completed")
    ]_vars

\* C3 (SpecLedger): add_task makes the ledger one longer, the new last entry
\* is task_{n+1}, Pending, progress 0, and the n earlier entries are unchanged.
C3_AddTaskAppends ==
    [][op'.name = "add_task" =>
        LET n == Len(tasks_data)
        IN  /\ Len(tasks_data') = n + 1
            /\ SubSeq(tasks_data', 1, n) = tasks_data
            /\ tasks_data'[n + 1].key = <<"task", n + 1>>
            /\ tasks_data'[n + 1].value.status = "Pending"
            /\ tasks_data'[n + 1].value.progress = 0
    ]_vars

\* C8 (SpecTasks): every render of the analysis page moves each Running task
\* to min(100, progress + k) for some k in 1..5 and leaves the others as
\* they are.
C8_EveryRenderAdvances ==
    [][op'.name = "render" =>
        /\ Len(tasks_data') = Len(tasks_data)
        /\ \A i \in DOMAIN tasks_data :
              LET t == tasks_data[i].value
                  u == tasks_data'[i].value
              IN  IF t.status = "Running"
                  THEN \E k \in 1..5 :
                          u.progress = (IF t.progress + k < 100
                                        THEN t.progress + k ELSE 100)
                  ELSE u = t
    ]_vars

\* C4 as stated (SpecProgress): 30 consecutive runs of the progress loop
\* after the start of a new task leave it at progress 100, Completed.
C4_ThirtyCallsComplete ==
    advances = 30 =>
        /\ tasks_data # <<>>
        /\ tasks_data[1].value.progress = 100
        /\ tasks_data[1].value.status = "Completed"

\* C4 amended (SpecProgress): 100 consecutive runs of the progress loop
\* after the start of a new task leave it at progress 100, Completed.
C4_HundredCallsComplete ==
    advances = 100 =>
        /\ tasks_data # <<>>
        /\ tasks_data[1].value.progress = 100
        /\ tasks_data[1].value.status = "Completed"

\* the progress loop has run 100 times on the started task
C4_Witness ==
    /\ advances = 100
    /\ op.name = "render"
    /\ tasks_data # <<>>
    /\ tasks_data[1].value.status = "Completed"

====
